---- MODULE Spec2Model ----
(***************************************************************************)
(* A model of the colour-map engine of src/claude2.py:                     *)
(*   load_painting_data            (normalisation of the sample table)     *)
(*   interpolate_colors_to_countries (one frame: a colour per region and   *)
(*                                  the year's dominant channel)           *)
(*   animate_color_usage           (one frame file per distinct year)      *)
(*                                                                         *)
(* Numbers.  A colour fraction is an integer number of units of 1/25500,   *)
(* so that x/100 and x/255 are both exact (1.0 is Scale, 0.33 is 33*255,   *)
(* 300/255 is 300*100).  NaN is a value outside the range of every finite  *)
(* number of the model.  A distance is an integer number of thousandths    *)
(* of a degree.  A weight 1/(d + 0.001) is the exact rational              *)
(* 1000/(D + Epsilon); weighted averages are exact rationals q + r/m.      *)
(***************************************************************************)
EXTENDS Integers, Sequences, FiniteSets, TLC

VARIABLES
    dl,               \* download_image: its parameters, locals and requests
    shapefiles,       \* load_europe_map: what is at each of potential_paths
    url_file,         \* load_europe_map: what the download of the shapefile gives
    raw_data,         \* load_painting_data: the table read from the CSV file
    painting_data,    \* the sample table (a sequence of rows)
    europe_gdf,       \* the region table (a sequence of regions)
    pc,               \* position of the running function
    year,             \* the year argument of the last interpolate call
    colored_europe,   \* the frame returned by the last interpolate call
    dominant_color,   \* the dominant channel returned by the last call
    seen,             \* call log: the year and the result of the first call
    years,            \* animate_color_usage: sorted(unique years)
    i,                \* animate_color_usage: index of the frame loop
    frames,           \* animate_color_usage: the frames produced, in order
    animation_frames, \* the directory animation_frames: the file names in it
    saved,            \* the file names written by savefig, in order
    gif,              \* color_usage_animation.gif: the frames it is made of
    printed           \* the messages printed, in order

inputVars == <<shapefiles, url_file, raw_data, painting_data, europe_gdf>>

callVars == <<year, colored_europe, dominant_color>>

animVars == <<years, i, frames, animation_frames, saved, gif, printed>>

vars == <<dl, shapefiles, url_file, raw_data, painting_data, europe_gdf, pc, year, colored_europe, dominant_color, seen,
          years, i, frames, animation_frames, saved, gif, printed>>

-----------------------------------------------------------------------------
(* Numbers *)

NaN == -999999999

Scale == 255 * 100

Unit == Scale \div 255

MaxNearest == 5

Epsilon == 1

isnan(x) == x = NaN

\* a < b of two floats: false when one of them is NaN
Less(a, b) == ~isnan(a) /\ ~isnan(b) /\ a < b

Min2(a, b) == IF a < b THEN a ELSE b

Max2(a, b) == IF a > b THEN a ELSE b

Abs(a) == IF a < 0 THEN -a ELSE a

RECURSIVE Gcd(_, _)
Gcd(a, b) == IF b = 0 THEN a ELSE Gcd(b, a % b)

Lcm(a, b) == (a \div Gcd(a, b)) * b

RECURSIVE SqrtSearch(_, _, _)
SqrtSearch(n, lo, hi) ==
    IF lo = hi THEN lo
    ELSE LET mid == (lo + hi + 1) \div 2
         IN  IF mid * mid <= n THEN SqrtSearch(n, mid, hi)
                               ELSE SqrtSearch(n, lo, mid - 1)

\* floor(sqrt(n)) for 0 <= n < 2^31
ISqrt(n) == SqrtSearch(n, 0, 46340)

\* a * b = q * m + r with 0 <= r < m, for a, b >= 0 and 0 < m < 2^30,
\* computed by doubling so that no intermediate value leaves 32 bits
RECURSIVE MulDiv(_, _, _)
MulDiv(a, b, m) ==
    IF b = 0 THEN [q |-> 0, r |-> 0]
    ELSE LET h  == MulDiv(a, b \div 2, m)
             q2 == 2 * h.q + (IF 2 * h.r >= m THEN 1 ELSE 0)
             r2 == (2 * h.r) % m
         IN  IF b % 2 = 0 THEN [q |-> q2, r |-> r2]
             ELSE [q |-> q2 + (a \div m) + (IF r2 + (a % m) >= m THEN 1 ELSE 0),
                   r |-> (r2 + (a % m)) % m]

-----------------------------------------------------------------------------
(* Geometry: shapely's Point(longitude, latitude), a polygon's centroid and  *)
(* the planar distance between two points, in thousandths of a degree.      *)

Point(x, y) == [x |-> x, y |-> y]

NoGeometry == [kind |-> "None"]

Box(minx, miny, maxx, maxy) ==
    [kind |-> "Polygon", minx |-> minx, miny |-> miny, maxx |-> maxx, maxy |-> maxy]

\* the centroid of an axis-parallel rectangle is its midpoint
centroid(geometry) ==
    Point((geometry.minx + geometry.maxx) \div 2, (geometry.miny + geometry.maxy) \div 2)

\* NaN when a coordinate is NaN
distance(p, q) ==
    IF isnan(p.x) \/ isnan(p.y) \/ isnan(q.x) \/ isnan(q.y) THEN NaN
    ELSE ISqrt(((p.x - q.x) * (p.x - q.x) + (p.y - q.y) * (p.y - q.y)) * 1000000)

-----------------------------------------------------------------------------
(* Colours: a colour is the sequence of the characters of its hex string.   *)

HexDigits ==
    <<"0", "1", "2", "3", "4", "5", "6", "7", "8", "9", "a", "b", "c", "d", "e", "f">>

\* '#CCCCCC', the default gray
Sentinel == <<"#", "C", "C", "C", "C", "C", "C">>

\* a region whose 'color' cell was never written
NoColor == <<>>

\* an exact rational number of channel units: q + r/m, or not-a-number
Rat(q, r, m) == [nan |-> FALSE, q |-> q, r |-> r, m |-> m]

NaNRat == [nan |-> TRUE, q |-> 0, r |-> 0, m |-> 1]

\* round(val * 255) for val = (v.q + v.r/v.m) / Scale, halves to the even integer
round255(v) ==
    LET k == v.q \div Unit
        t == v.q % Unit
        e == (2 * v.r) \div v.m
        f == (2 * v.r) % v.m
    IN  IF 2 * t + e < Unit THEN k
        ELSE IF 2 * t + e = Unit /\ f = 0 THEN (IF k % 2 = 0 THEN k ELSE k + 1)
        ELSE k + 1

hex2(b) == <<HexDigits[(b \div 16) + 1], HexDigits[(b % 16) + 1]>>

\* matplotlib.colors.rgb2hex: "#" and format(round(val * 255), "02x") per channel
rgb2hex(r, g, b) == <<"#">> \o hex2(round255(r)) \o hex2(round255(g)) \o hex2(round255(b))

-----------------------------------------------------------------------------
(* interpolate_colors_to_countries *)

Channels == <<"red_pct", "green_pct", "blue_pct">>

\* a filter with a tolerance of fifty years around the year
FilterYear_window(data, y) == SelectSeq(data, LAMBDA p : Abs(p.year - y) <= 50)

\* painting_data[painting_data['year'] == year]
FilterYear(data, y) == SelectSeq(data, LAMBDA p : p.year = y)

\* the list of (distance, painting) pairs of one country
distances(country_centroid, year_data) ==
    [k \in 1..Len(year_data) |->
        [distance |-> distance(country_centroid,
                               Point(year_data[k].longitude, year_data[k].latitude)),
         painting |-> year_data[k]]]

\* list.sort(key=distance) of a short list, as CPython does it: the run the
\* list starts with is kept (reversed when it descends strictly) and the other
\* entries are put in one by one at the place a binary search finds.  That is
\* a stable sort by distance; entries with a NaN distance, for which every
\* comparison is false, stay where the search leaves them.
RECURSIVE BinaryPosition(_, _, _, _)
BinaryPosition(s, e, lo, hi) ==
    IF lo >= hi THEN lo
    ELSE LET mid == (lo + hi) \div 2
         IN  IF Less(e.distance, s[mid + 1].distance)
             THEN BinaryPosition(s, e, lo, mid)
             ELSE BinaryPosition(s, e, mid + 1, hi)

InsertByDistance(s, e) ==
    LET n == BinaryPosition(s, e, 0, Len(s))
    IN  SubSeq(s, 1, n) \o <<e>> \o SubSeq(s, n + 1, Len(s))

RECURSIVE RunEnd(_, _, _)
RunEnd(s, n, descending) ==
    IF n >= Len(s) THEN n
    ELSE IF Less(s[n + 1].distance, s[n].distance) = descending
    THEN RunEnd(s, n + 1, descending)
    ELSE n

Reverse(s) == [k \in 1..Len(s) |-> s[Len(s) + 1 - k]]

RECURSIVE BinarySort(_, _)
BinarySort(s, n) ==
    IF n >= Len(s) THEN s
    ELSE BinarySort(InsertByDistance(SubSeq(s, 1, n), s[n + 1]) \o SubSeq(s, n + 2, Len(s)),
                    n + 1)

SortByDistance(s) ==
    IF Len(s) < 2 THEN s
    ELSE LET descending == Less(s[2].distance, s[1].distance)
             n   == RunEnd(s, 2, descending)
             run == SubSeq(s, 1, n)
         IN  BinarySort((IF descending THEN Reverse(run) ELSE run) \o SubSeq(s, n + 1, Len(s)),
                        n)

\* the slice of line 241 left out: every painting of the year is used
nearest_paintings_all(ds) == ds

\* distances[:min(5, len(distances))]
nearest_paintings(ds) == SubSeq(ds, 1, Min2(MaxNearest, Len(ds)))

RECURSIVE CommonMultiple(_)
CommonMultiple(np) ==
    IF np = <<>> THEN 1
    ELSE IF isnan(Head(np).distance) THEN CommonMultiple(Tail(np))
    ELSE Lcm(CommonMultiple(Tail(np)), Head(np).distance + Epsilon)

RECURSIVE SumTo(_, _)
SumTo(f, n) == IF n = 0 THEN 0 ELSE f[n] + SumTo(f, n - 1)

\* weights that grow with the distance instead of its inverse
weights_by_distance(np) ==
    [k \in 1..Len(np) |->
        IF isnan(np[k].distance) THEN NaN ELSE np[k].distance + Epsilon]

\* weight = 1 / (distance + 0.001) for each selected painting, as the integers
\* weight * L / 1000 for the common multiple L of the denominators; NaN for a
\* NaN distance
weights(np) ==
    LET L == CommonMultiple(np)
    IN  [k \in 1..Len(np) |->
            IF isnan(np[k].distance) THEN NaN ELSE L \div (np[k].distance + Epsilon)]

\* total_weight += weight: NaN as soon as one weight is NaN
sum_of_weights(w) ==
    IF \E k \in 1..Len(w) : isnan(w[k]) THEN NaN ELSE SumTo(w, Len(w))

\* x_weighted_sum / total_weight if total_weight > 0 else 0.5, for the weights w
\* and their sum total_weight; the test is false for a NaN total_weight, and the
\* quotient is NaN when a channel that was added is NaN
weighted_average(np, w, total_weight, ch) ==
    IF ~Less(0, total_weight) THEN Rat(Scale \div 2, 0, 1)
    ELSE IF \E k \in 1..Len(np) : isnan(np[k].painting[ch]) THEN NaNRat
    ELSE IF total_weight > 0
    THEN LET t  == [k \in 1..Len(np) |-> MulDiv(w[k], np[k].painting[ch], total_weight)]
             rs == SumTo([k \in 1..Len(np) |-> t[k].r], Len(np))
             qs == SumTo([k \in 1..Len(np) |-> t[k].q], Len(np))
         IN  Rat(qs + (rs \div total_weight), rs % total_weight, total_weight)
    ELSE Rat(Scale \div 2, 0, 1)

\* min(max(x, 0.0), 1.0): both comparisons are false for a NaN, which stays
clamp01(v) ==
    IF v.nan THEN v
    ELSE IF v.q < 0 THEN Rat(0, 0, v.m)
    ELSE IF v.q >= Scale THEN Rat(Scale, 0, v.m)
    ELSE v

in01(v) == v.q >= 0 /\ (v.q < Scale \/ (v.q = Scale /\ v.r = 0))

\* lines 264-273: the hex colour with its safety checks
avg_color(r_avg, g_avg, b_avg) ==
    IF ~r_avg.nan /\ ~g_avg.nan /\ ~b_avg.nan /\ in01(r_avg) /\ in01(g_avg) /\ in01(b_avg)
    THEN rgb2hex(r_avg, g_avg, b_avg)
    ELSE Sentinel

\* the handler of line 280 without its line 282: the cell stays unwritten
error_color_unset == NoColor

\* line 282: the colour written by the handler of an error in a country's pass
error_color == Sentinel

\* line 213: the colour of every country of a year without data
no_data_color == Sentinel

\* lines 222-282: one pass of the loop body for one country; colored is TRUE
\* when idx is appended to countries_with_colors
country_color(country, year_data) ==
    IF country.geometry.kind = "None"
    THEN [color |-> error_color, colored |-> FALSE]
    ELSE LET np == nearest_paintings(
                       SortByDistance(distances(centroid(country.geometry), year_data)))
             w  == weights(np)
             total_weight == sum_of_weights(w)
         IN  IF np # <<>>
             THEN [color |-> avg_color(
                                 clamp01(weighted_average(np, w, total_weight, "red_pct")),
                                 clamp01(weighted_average(np, w, total_weight, "green_pct")),
                                 clamp01(weighted_average(np, w, total_weight, "blue_pct"))),
                   colored |-> TRUE]
             ELSE [color |-> Sentinel, colored |-> FALSE]

\* pandas Series.mean(): the mean of the values that are not NaN, NaN if none
mean(year_data, ch) ==
    LET vals == SelectSeq(year_data, LAMBDA p : ~isnan(p[ch]))
    IN  [nan |-> vals = <<>>,
         sum |-> SumTo([k \in 1..Len(vals) |-> vals[k][ch]], Len(vals)),
         n   |-> Len(vals)]

\* a >= b for two means that are numbers
MeanGeq(a, b) == a.sum * b.n >= b.sum * a.n

\* the comparisons of lines 297-302 taken in the order Blue, Green, Red
dominant_of_blue_first(r_avg, g_avg, b_avg) ==
    IF ~r_avg.nan /\ ~g_avg.nan /\ ~b_avg.nan
    THEN IF MeanGeq(b_avg, r_avg) /\ MeanGeq(b_avg, g_avg) THEN "Blue"
         ELSE IF MeanGeq(g_avg, r_avg) /\ MeanGeq(g_avg, b_avg) THEN "Green"
         ELSE "Red"
    ELSE "None"

\* lines 288-307
dominant_of(r_avg, g_avg, b_avg) ==
    IF ~r_avg.nan /\ ~g_avg.nan /\ ~b_avg.nan
    THEN IF MeanGeq(r_avg, g_avg) /\ MeanGeq(r_avg, b_avg) THEN "Red"
         ELSE IF MeanGeq(g_avg, r_avg) /\ MeanGeq(g_avg, b_avg) THEN "Green"
         ELSE "Blue"
    ELSE "None"

\* lines 284-286 left out: the dominant channel is always computed
no_countries_with_colors_skipped(cc) == FALSE

\* lines 284-286: no country has colour data
no_countries_with_colors(cc) == \A k \in 1..Len(cc) : ~cc[k].colored

\* the whole function: [colored_europe, dominant_color]
interpolate_colors_to_countries(data, gdf, y) ==
    LET year_data == FilterYear(data, y)
    IN  IF Len(year_data) = 0
        THEN [colored_europe |-> [k \in 1..Len(gdf) |-> [gdf[k] EXCEPT !.color = no_data_color]],
              dominant_color |-> "None"]
        ELSE LET cc == [k \in 1..Len(gdf) |-> country_color(gdf[k], year_data)]
             IN  [colored_europe |->
                      [k \in 1..Len(gdf) |-> [gdf[k] EXCEPT !.color = cc[k].color]],
                  dominant_color |->
                      IF no_countries_with_colors(cc) THEN "None"
                      ELSE dominant_of(mean(year_data, "red_pct"),
                                       mean(year_data, "green_pct"),
                                       mean(year_data, "blue_pct"))]

-----------------------------------------------------------------------------
(* Inputs *)

MaxRows == 3

MaxRegions == 2

Row(y, lat, lon, r, g, b) ==
    [year |-> y, latitude |-> lat, longitude |-> lon,
     red_pct |-> r, green_pct |-> g, blue_pct |-> b]

\* the rows the sample tables are made of.  Three paintings of 2000, pure red,
\* green and blue, one, two and no degree east of Europe's centroid; and two
\* paintings of 1900: one whose red_pct is missing, one with the default
\* fractions 0.33
SampleRows ==
    { Row(2000, 55, 16, Scale, 0, 0),
      Row(2000, 55, 17, 0, Scale, 0),
      Row(2000, 55, 15, 0, 0, Scale),
      Row(1900, 55, 16, NaN, Scale, 0),
      Row(1900, 55, 15, 33 * 255, 33 * 255, 33 * 255) }

Region(name, geometry) == [NAME |-> name, geometry |-> geometry, color |-> NoColor]

\* the rows the region tables are made of: the synthetic Europe of
\* create_simple_europe_map (centroid 15, 55), a country whose centroid is
\* (16, 55), and a row without geometry, whose pass raises
Regions ==
    { Region("Europe", Box(-10, 35, 40, 75)),
      Region("France", Box(14, 54, 18, 56)),
      Region("Monaco", NoGeometry) }

SeqsUpTo(S, n) == UNION {[1..k -> S] : k \in 0..n}

Injective(s) == \A a, b \in 1..Len(s) : a # b => s[a] # s[b]

RegionTables == {s \in SeqsUpTo(Regions, MaxRegions) : Injective(s)}

\* the years interpolate_colors_to_countries is called with
CallYears == {1900, 1950, 2000}

\* download_image is not running
NoDownload == [pc |-> "idle"]

\* no file at a path
Missing == [exists |-> FALSE, reads |-> FALSE, rows |-> <<>>]

\* no table was read
NoTable == [columns |-> {}, rows |-> <<>>]

\* no file color_usage_animation.gif
NoGif == [written |-> FALSE, frames |-> <<>>]

NotCalled == [year |-> 0, colored_europe |-> <<>>, dominant_color |-> "None",
              others |-> FALSE]

-----------------------------------------------------------------------------
(* Direct calls of interpolate_colors_to_countries *)

InitIdle ==
    /\ raw_data = NoTable
    /\ dl = NoDownload
    /\ shapefiles = <<>>
    /\ url_file = Missing
    /\ pc = "idle"
    /\ year = 0
    /\ colored_europe = <<>>
    /\ dominant_color = "None"
    /\ seen = NotCalled
    /\ years = <<>>
    /\ i = 0
    /\ frames = <<>>
    /\ animation_frames = {}
    /\ saved = <<>>
    /\ gif = NoGif
    /\ printed = <<>>

InitInterp ==
    /\ painting_data \in SeqsUpTo(SampleRows, MaxRows)
    /\ europe_gdf \in RegionTables
    /\ InitIdle

\* a call that keeps every region whose new colour is the sentinel at the colour
\* of the frame returned before, instead of writing into a fresh copy
Call_merge(y) ==
    /\ LET res == interpolate_colors_to_countries(painting_data, europe_gdf, y)
       IN  /\ colored_europe' =
                 [k \in 1..Len(europe_gdf) |->
                     IF res.colored_europe[k].color = Sentinel /\ k <= Len(colored_europe)
                     THEN colored_europe[k]
                     ELSE res.colored_europe[k]]
           /\ dominant_color' = res.dominant_color
    /\ year' = y
    /\ pc' = "called"
    /\ UNCHANGED <<dl, inputVars, animVars>>

\* a call that writes the colours into europe_gdf itself instead of a copy
Call_inplace(y) ==
    /\ LET res == interpolate_colors_to_countries(painting_data, europe_gdf, y)
       IN  /\ colored_europe' = res.colored_europe
           /\ europe_gdf' = res.colored_europe
           /\ dominant_color' = res.dominant_color
    /\ year' = y
    /\ pc' = "called"
    /\ UNCHANGED <<dl, shapefiles, url_file, raw_data, painting_data, animVars>>

\* colored_europe, dominant_color =
\*     interpolate_colors_to_countries(painting_data, europe_gdf, y)
Call(y) ==
    /\ LET res == interpolate_colors_to_countries(painting_data, europe_gdf, y)
       IN  /\ colored_europe' = res.colored_europe
           /\ dominant_color' = res.dominant_color
    /\ year' = y
    /\ pc' = "called"
    /\ UNCHANGED <<dl, inputVars, animVars>>

NextInterp == \E y \in CallYears : pc = "idle" /\ Call(y) /\ UNCHANGED seen

SpecInterp == InitInterp /\ [][NextInterp]_vars

-----------------------------------------------------------------------------
(* Sequences of calls, as update_map makes them: seen keeps the year and the  *)
(* result of the first call, and whether a call for another year followed   *)

MaxCallRows == 2

InitCalls ==
    /\ painting_data \in SeqsUpTo(SampleRows, MaxCallRows)
    /\ europe_gdf \in RegionTables
    /\ InitIdle

Logged(y) ==
    IF seen = NotCalled
    THEN [year |-> y, colored_europe |-> colored_europe',
          dominant_color |-> dominant_color', others |-> FALSE]
    ELSE [seen EXCEPT !.others = @ \/ y # seen.year]

NextCalls == \E y \in CallYears : Call(y) /\ seen' = Logged(y)

SpecCalls == InitCalls /\ [][NextCalls]_vars

-----------------------------------------------------------------------------
(* Direct calls on tables long enough for the cap of five nearest paintings: *)
(* the rows are the paintings of 2000, the table has one region, which has  *)
(* a geometry                                                               *)

MaxCapRows == 6

InitKCap ==
    /\ painting_data \in SeqsUpTo({p \in SampleRows : p.year = 2000}, MaxCapRows)
    /\ europe_gdf \in {t \in RegionTables : Len(t) = 1 /\ t[1].geometry.kind # "None"}
    /\ InitIdle

SpecKCap == InitKCap /\ [][NextInterp]_vars

-----------------------------------------------------------------------------
(* animate_color_usage *)

MaxAnimRows == 3

\* the rows of the tables of the driver: one painting for each of three years
AnimRows ==
    { Row(2000, 55, 16, Scale, 0, 0),
      Row(1900, 55, 15, 33 * 255, 33 * 255, 33 * 255),
      Row(1950, 55, 17, 0, Scale, 0) }

\* the name frame_<index:03d>_<year>.png
FrameName(index, y) == [index |-> index, year |-> y]

\* the contents of the directory animation_frames before the run: nothing, or
\* a frame file of an earlier run
OldDirectories == {{}, {FrameName(0, 1850)}}

\* Series.unique(): the values in the order of their first appearance
RECURSIVE unique(_)
unique(col) ==
    IF col = <<>> THEN <<>>
    ELSE LET u == unique(SubSeq(col, 1, Len(col) - 1))
         IN  IF \E k \in 1..Len(u) : u[k] = col[Len(col)] THEN u
             ELSE Append(u, col[Len(col)])

InsertAscending(s, v) ==
    LET n == Cardinality({k \in 1..Len(s) : s[k] <= v})
    IN  SubSeq(s, 1, n) \o <<v>> \o SubSeq(s, n + 1, Len(s))

\* the list returned without sorting
sorted_unsorted(s) == s

\* sorted(): the values in ascending order
RECURSIVE sorted(_)
sorted(s) ==
    IF s = <<>> THEN <<>>
    ELSE InsertAscending(sorted(SubSeq(s, 1, Len(s) - 1)), s[Len(s)])

\* the file names compare as strings; for indexes below 1000 and years of four
\* digits that is the order of the index, then of the year
NameLeq(a, b) == a.index < b.index \/ (a.index = b.index /\ a.year <= b.year)

\* sorted([f for f in os.listdir('animation_frames') if f.startswith('frame_')])
RECURSIVE sorted_names(_)
sorted_names(S) ==
    IF S = {} THEN <<>>
    ELSE LET first == CHOOSE a \in S : \A b \in S : NameLeq(a, b)
         IN  <<first>> \o sorted_names(S \ {first})

InitAnimate ==
    /\ painting_data \in SeqsUpTo(AnimRows, MaxAnimRows)
    /\ europe_gdf \in {t \in RegionTables : Len(t) <= 1}
    /\ raw_data = NoTable
    /\ dl = NoDownload
    /\ shapefiles = <<>>
    /\ url_file = Missing
    /\ pc = "start"
    /\ year = 0
    /\ colored_europe = <<>>
    /\ dominant_color = "None"
    /\ seen = NotCalled
    /\ years = <<>>
    /\ i = 0
    /\ frames = <<>>
    /\ animation_frames \in OldDirectories
    /\ saved = <<>>
    /\ gif = NoGif
    /\ printed = <<>>

\* lines 314-318 with the test of line 316 left out
Start_always_on ==
    /\ pc = "start"
    /\ years' = sorted(unique([k \in 1..Len(painting_data) |-> painting_data[k].year]))
    /\ pc' = "frames"
    /\ i' = 0
    /\ UNCHANGED <<dl, inputVars, callVars, seen, frames, animation_frames, saved, gif, printed>>

\* lines 314-364: the years of the table; without years, a message and return
Start ==
    /\ pc = "start"
    /\ years' = sorted(unique([k \in 1..Len(painting_data) |-> painting_data[k].year]))
    /\ IF years' = <<>>
       THEN /\ printed' = Append(printed, "No years found in the data.")
            /\ pc' = "done"
       ELSE /\ printed' = Append(printed, "Creating a series of PNG images...")
            /\ pc' = "frames"
    /\ i' = 0
    /\ UNCHANGED <<dl, inputVars, callVars, seen, frames, animation_frames, saved, gif>>

\* lines 367-369: the frame of years[i] (i counts from 0)
NextFrame ==
    /\ pc = "frames"
    /\ i < Len(years)
    /\ LET res == interpolate_colors_to_countries(painting_data, europe_gdf, years[i + 1])
       IN  /\ colored_europe' = res.colored_europe
           /\ dominant_color' = res.dominant_color
           /\ frames' = Append(frames, [year |-> years[i + 1],
                                        colored_europe |-> res.colored_europe,
                                        dominant_color |-> res.dominant_color])
    /\ year' = years[i + 1]
    /\ i' = i + 1

\* lines 371-389: the frame is drawn and saved as frame_<i>_<year>.png
SaveFrame ==
    /\ NextFrame
    /\ saved' = Append(saved, FrameName(i, years[i + 1]))
    /\ animation_frames' = animation_frames \cup {FrameName(i, years[i + 1])}
    /\ printed' = Append(printed, "Saved frame")
    /\ UNCHANGED <<dl, inputVars, seen, years, gif, pc>>

\* the loop body without its try: the exception ends the function
FrameError_abort ==
    /\ pc = "frames"
    /\ i < Len(years)
    /\ pc' = "done"
    /\ UNCHANGED <<dl, inputVars, callVars, seen, years, i, frames, animation_frames, saved,
                   gif, printed>>

\* lines 390-391: drawing or saving raised; the handler prints and the loop goes on
FrameError ==
    /\ NextFrame
    /\ printed' = Append(printed, "Error processing frame")
    /\ UNCHANGED <<dl, inputVars, seen, years, gif, pc, saved, animation_frames>>

\* line 393: the loop is over
FramesDone ==
    /\ pc = "frames"
    /\ i = Len(years)
    /\ printed' = Append(printed, "Individual frames saved")
    /\ pc' = "gif"
    /\ UNCHANGED <<dl, inputVars, callVars, seen, years, i, frames, animation_frames, saved, gif>>

\* lines 396-407 and 411: the GIF of the frame files of the directory
MakeGif ==
    /\ pc = "gif"
    /\ gif' = [written |-> TRUE, frames |-> sorted_names(animation_frames)]
    /\ printed' = Append(printed, "GIF created")
    /\ pc' = "done"
    /\ UNCHANGED <<dl, inputVars, callVars, seen, years, i, frames, animation_frames, saved>>

\* lines 408-411: imageio is missing, or reading or writing raised
GifError ==
    /\ pc = "gif"
    /\ printed' = Append(printed, "Could not create GIF")
    /\ pc' = "done"
    /\ UNCHANGED <<dl, inputVars, callVars, seen, years, i, frames, animation_frames, saved, gif>>

Next == Start \/ SaveFrame \/ FrameError \/ FramesDone \/ MakeGif \/ GifError

Spec == InitAnimate /\ [][Next]_vars

-----------------------------------------------------------------------------
(* load_painting_data: the normalisation of a table that pd.read_csv returned *)
(* A raw table is the set of its column names and its rows; a cell of a      *)
(* column the table has not is never read, a NaN cell is a missing value.    *)

MaxRawRows == 2

required_columns == <<"year", "latitude", "longitude", "red_pct", "green_pct", "blue_pct">>

ColorColumns == {"red_pct", "green_pct", "blue_pct"}

\* lines 106-111 and 114-119: the default of a column
default_value(col) ==
    IF col = "year" THEN 2000
    ELSE IF col \in {"latitude", "longitude"} THEN 0
    ELSE 33 * 255

\* lines 103-119: a column the table has not is created with the default, a
\* missing value of a column it has is filled with it
fill_defaults(raw) ==
    [k \in 1..Len(raw.rows) |->
        [col \in {required_columns[c] : c \in 1..6} |->
            IF col \notin raw.columns \/ isnan(raw.rows[k][col])
            THEN default_value(col)
            ELSE raw.rows[k][col]]]

\* Series.max(): NaN for a column without rows
column_max(rows, col) ==
    IF rows = <<>> THEN NaN
    ELSE CHOOSE v \in {rows[k][col] : k \in 1..Len(rows)} :
             \A k \in 1..Len(rows) : rows[k][col] <= v

\* the column without the clip of line 129
clip_missing(v) == v

\* Series.clip(0.0, 1.0)
clip(v) == Min2(Max2(v, 0), Scale)

\* a rescaling decided value by value: only the values above 1.0 are divided
normalize_column_per_value(rows, col) ==
    [k \in 1..Len(rows) |->
        clip(IF rows[k][col] > Scale THEN rows[k][col] \div 255 ELSE rows[k][col])]

\* lines 124-129: one colour column: divided by 255 when its maximum is above
\* 1.0 (a comparison that is false for NaN), then clipped
normalize_column(rows, col) ==
    LET m == column_max(rows, col)
    IN  [k \in 1..Len(rows) |->
            clip(IF ~isnan(m) /\ m > Scale THEN rows[k][col] \div 255 ELSE rows[k][col])]

\* lines 101-136 for a table that was read
load_painting_data(raw) ==
    LET filled == fill_defaults(raw)
    IN  [k \in 1..Len(filled) |->
            [col \in DOMAIN filled[k] |->
                IF col \in ColorColumns THEN normalize_column(filled, col)[k]
                ELSE filled[k][col]]]

\* the values of the cells of a raw colour column: missing, -1.0, 0.5, 1.0, 128
\* and 300
RawRows ==
    [year : {2000, NaN}, latitude : {55}, longitude : {16},
     red_pct : {NaN, -Scale, 128 * Scale, 300 * Scale},
     green_pct : {Scale \div 2, 128 * Scale},
     blue_pct : {NaN, Scale}]

\* the header of the CSV file: every required column, or all but blue_pct
RawHeaders ==
    { {required_columns[c] : c \in 1..6}, {required_columns[c] : c \in 1..5} }

InitLoad ==
    /\ raw_data \in [columns : RawHeaders, rows : SeqsUpTo(RawRows, MaxRawRows)]
    /\ painting_data = <<>>
    /\ europe_gdf = <<>>
    /\ dl = NoDownload
    /\ shapefiles = <<>>
    /\ url_file = Missing
    /\ pc = "load"
    /\ year = 0
    /\ colored_europe = <<>>
    /\ dominant_color = "None"
    /\ seen = NotCalled
    /\ years = <<>>
    /\ i = 0
    /\ frames = <<>>
    /\ animation_frames = {}
    /\ saved = <<>>
    /\ gif = NoGif
    /\ printed = <<>>

\* painting_data = load_painting_data(csv_path), the file read with an encoding
Load ==
    /\ pc = "load"
    /\ painting_data' = load_painting_data(raw_data)
    /\ pc' = "loaded"
    /\ UNCHANGED <<dl, shapefiles, url_file, raw_data, europe_gdf, callVars, seen, animVars>>

NextLoad == Load

SpecLoad == InitLoad /\ [][NextLoad]_vars

-----------------------------------------------------------------------------
(* What the claims are stated with *)

HexChars ==
    {"0", "1", "2", "3", "4", "5", "6", "7", "8", "9",
     "a", "b", "c", "d", "e", "f", "A", "B", "C", "D", "E", "F"}

\* a '#' and six hexadecimal digits
IsHexColor(c) == Len(c) = 7 /\ c[1] = "#" /\ \A k \in 2..7 : c[k] \in HexChars

UpperDigits == <<"0", "1", "2", "3", "4", "5", "6", "7", "8", "9", "A", "B", "C", "D", "E", "F">>

HexVal(ch) == (CHOOSE k \in 1..16 : HexDigits[k] = ch \/ UpperDigits[k] = ch) - 1

\* the value of the two digits of colour c at position pos
ByteAt(c, pos) == 16 * HexVal(c[pos]) + HexVal(c[pos + 1])

HasGeometry(c) == c.geometry.kind # "None"

\* the rows of the table tagged with exactly the year of the call
RowsOfYear == SelectSeq(painting_data, LAMBDA p : p.year = year)

\* the sum and the number of the values of a channel that are numbers
ChannelSum(ch) ==
    LET v == SelectSeq(RowsOfYear, LAMBDA p : p[ch] # NaN)
    IN  SumTo([k \in 1..Len(v) |-> v[k][ch]], Len(v))

ChannelCount(ch) == Len(SelectSeq(RowsOfYear, LAMBDA p : p[ch] # NaN))

\* the mean of channel a is at least (more than) the mean of channel b
MeanAtLeast(a, b) == ChannelSum(a) * ChannelCount(b) >= ChannelSum(b) * ChannelCount(a)

MeanAbove(a, b) == ChannelSum(a) * ChannelCount(b) > ChannelSum(b) * ChannelCount(a)

SomeMeanIsNaN == \E k \in 1..3 : ChannelCount(Channels[k]) = 0

-----------------------------------------------------------------------------
(* Claims about one call of interpolate_colors_to_countries *)

\* C1: after a call, the frame has one row per region of the region table, in
\* its order, and every row's colour is a '#' and six hex digits; a region whose
\* pass raised (it has no geometry) has the sentinel colour, and the other
\* regions have the colours they have when the failing regions are not in the
\* table at all.
C1_FrameFullyColoured ==
    pc = "called" =>
        /\ Len(colored_europe) = Len(europe_gdf)
        /\ \A k \in 1..Len(europe_gdf) :
              /\ colored_europe[k].NAME = europe_gdf[k].NAME
              /\ colored_europe[k].geometry = europe_gdf[k].geometry
              /\ IsHexColor(colored_europe[k].color)
              /\ ~HasGeometry(europe_gdf[k]) => colored_europe[k].color = Sentinel
        /\ SelectSeq(colored_europe, HasGeometry) =
              interpolate_colors_to_countries(
                  painting_data, SelectSeq(europe_gdf, HasGeometry), year).colored_europe

\* a frame of a year with data, with a region whose pass raised before a region
\* that has a computed colour
C1_Witness ==
    /\ pc = "called"
    /\ RowsOfYear # <<>>
    /\ \E k, j \in 1..Len(colored_europe) :
          /\ k < j
          /\ ~HasGeometry(europe_gdf[k])
          /\ HasGeometry(europe_gdf[j])
          /\ colored_europe[j].color # Sentinel

\* C2: when no row of the table is tagged with exactly the year of the call,
\* every region of the frame has exactly '#CCCCCC' and the dominant channel is
\* none, whatever rows the table has for other years.
C2_NoSamplesOfYear ==
    (pc = "called" /\ \A j \in 1..Len(painting_data) : painting_data[j].year # year) =>
        /\ \A k \in 1..Len(colored_europe) : colored_europe[k].color = Sentinel
        /\ dominant_color = "None"

\* a call for 1950 on a table that has rows of 1900 and of 2000, with a region
\* that has a geometry
C2_Witness ==
    /\ pc = "called"
    /\ year = 1950
    /\ \E j \in 1..Len(painting_data) : painting_data[j].year = 1900
    /\ \E j \in 1..Len(painting_data) : painting_data[j].year = 2000
    /\ \E k \in 1..Len(colored_europe) :
          HasGeometry(europe_gdf[k]) /\ colored_europe[k].color = Sentinel

\* C6 as claimed: the dominant channel is none exactly when the year has no
\* row or one of the three means is not a number, for every region table.
C6_Original ==
    pc = "called" =>
        ((dominant_color = "None") <=> (RowsOfYear = <<>> \/ SomeMeanIsNaN))

\* C6 as amended: the dominant channel is none exactly when the year has no
\* row, or one of the three means is not a number (a mean skips the missing
\* values, so it is not a number only when every row of the year lacks the
\* channel), or no region of the table got a colour from the samples (the table
\* is empty or every region's pass raised); otherwise it is Red, Green or Blue,
\* the same for every region table that has a region with a geometry.
C6_DominantChannel ==
    pc = "called" =>
        /\ (dominant_color = "None") <=>
              \/ RowsOfYear = <<>>
              \/ SomeMeanIsNaN
              \/ \A k \in 1..Len(europe_gdf) : ~HasGeometry(europe_gdf[k])
        /\ dominant_color \in {"None", "Red", "Green", "Blue"}
        /\ dominant_color # "None" =>
              \A t \in RegionTables :
                  (\E k \in 1..Len(t) : HasGeometry(t[k])) =>
                      interpolate_colors_to_countries(painting_data, t, year).dominant_color
                          = dominant_color

\* a year with rows and three means that are numbers: one frame whose regions
\* all raised
C6_Witness ==
    /\ pc = "called"
    /\ RowsOfYear # <<>>
    /\ ~SomeMeanIsNaN
    /\ Len(europe_gdf) > 0
    /\ \A k \in 1..Len(europe_gdf) : ~HasGeometry(europe_gdf[k])
    /\ dominant_color = "None"

\* C7: a dominant channel that is not none names a channel whose mean is the
\* maximum of the three; Red is named whenever its mean is a maximum, Green
\* whenever its mean is a maximum and Red's is not, Blue only when its mean is
\* above both others.
C7_TieBreak ==
    (pc = "called" /\ dominant_color # "None") =>
        /\ (dominant_color = "Red") <=>
              (MeanAtLeast("red_pct", "green_pct") /\ MeanAtLeast("red_pct", "blue_pct"))
        /\ (dominant_color = "Green") <=>
              (MeanAbove("green_pct", "red_pct") /\ MeanAtLeast("green_pct", "blue_pct"))
        /\ (dominant_color = "Blue") <=>
              (MeanAbove("blue_pct", "red_pct") /\ MeanAbove("blue_pct", "green_pct"))

\* three equal means, labelled Red
C7_Witness ==
    /\ pc = "called"
    /\ dominant_color = "Red"
    /\ MeanAtLeast("green_pct", "red_pct")
    /\ MeanAtLeast("blue_pct", "red_pct")
    /\ MeanAtLeast("red_pct", "blue_pct")
    /\ MeanAtLeast("red_pct", "green_pct")
    /\ \E j \in 1..Len(RowsOfYear) : RowsOfYear[j].red_pct # RowsOfYear[j].green_pct

\* the distance, in thousandths, from region k's centroid to row j of the year
DistanceTo(k, j) ==
    distance(centroid(europe_gdf[k].geometry),
             Point(RowsOfYear[j].longitude, RowsOfYear[j].latitude))

\* For one or two rows of the year, (sum of weight_i * channel_i) / (sum of
\* weight_i) with weight_i = 1 / (distance_i + 0.001) is FormulaNum / FormulaDen
\* channel units: the weights are 1000 / (D_i + 1) for distances of D_i
\* thousandths, and both sums are multiplied by the product of the D_i + 1.
FormulaNum(k, ch) ==
    IF Len(RowsOfYear) = 1 THEN RowsOfYear[1][ch]
    ELSE RowsOfYear[1][ch] * (DistanceTo(k, 2) + 1) + RowsOfYear[2][ch] * (DistanceTo(k, 1) + 1)

FormulaDen(k) ==
    IF Len(RowsOfYear) = 1 THEN 1
    ELSE (DistanceTo(k, 2) + 1) + (DistanceTo(k, 1) + 1)

\* byte b is the value FormulaNum / FormulaDen, clamped to [0, 1], times 255
\* and rounded to the nearest integer
IsRounded(b, k, ch) ==
    LET num == Min2(Max2(FormulaNum(k, ch), 0), Scale * FormulaDen(k))
    IN  2 * Abs(num - Unit * b * FormulaDen(k)) <= Unit * FormulaDen(k)

\* the scenario of the claim: region k's centroid has exactly two rows of the
\* year, pure red at distance 1 and pure green at distance 2
IsScenario(k) ==
    /\ HasGeometry(europe_gdf[k])
    /\ Len(RowsOfYear) = 2
    /\ \E a, b \in 1..2 :
          /\ DistanceTo(k, a) = 1000
          /\ RowsOfYear[a].red_pct = Scale
          /\ RowsOfYear[a].green_pct = 0
          /\ RowsOfYear[a].blue_pct = 0
          /\ DistanceTo(k, b) = 2000
          /\ RowsOfYear[b].red_pct = 0
          /\ RowsOfYear[b].green_pct = Scale
          /\ RowsOfYear[b].blue_pct = 0

-----------------------------------------------------------------------------
(* The cap of five nearest paintings *)

\* the distance from region k's centroid to the painting p
DistanceOf(k, p) ==
    distance(centroid(europe_gdf[k].geometry), Point(p.longitude, p.latitude))

\* the number of rows of the year strictly nearer to region k than painting p
NearerRows(k, p) ==
    Cardinality({j \in 1..Len(RowsOfYear) :
                    DistanceOf(k, RowsOfYear[j]) < DistanceOf(k, p)})

\* the colour of region k in the frame of the year for the table data
ColourFor(k, data) ==
    interpolate_colors_to_countries(data, <<europe_gdf[k]>>, year).colored_europe[1].color

\* C3: a painting of the year that is strictly farther from a region's centroid
\* than five paintings of the year has no influence on the region's colour:
\* adding such a painting, before or behind the rows of the table, leaves the
\* colour unchanged, and so does removing every such painting from the table.
C3_KCap ==
    pc = "called" =>
        \A k \in 1..Len(europe_gdf) :
            /\ \A e \in SampleRows :
                  (e.year = year /\ NearerRows(k, e) >= 5) =>
                      /\ ColourFor(k, painting_data \o <<e>>) = colored_europe[k].color
                      /\ ColourFor(k, <<e>> \o painting_data) = colored_europe[k].color
            /\ ColourFor(k, SelectSeq(painting_data,
                                      LAMBDA p : p.year # year \/ NearerRows(k, p) < 5))
                  = colored_europe[k].color

\* a frame of a year with more than five paintings, one of them strictly
\* farther from a region than five others and of another colour than the nearest
C3_Witness ==
    /\ pc = "called"
    /\ Len(RowsOfYear) > 5
    /\ \E k \in 1..Len(europe_gdf) : \E j \in 1..Len(RowsOfYear) :
          /\ NearerRows(k, RowsOfYear[j]) >= 5
          /\ \E n \in 1..Len(RowsOfYear) :
                /\ NearerRows(k, RowsOfYear[n]) = 0
                /\ RowsOfYear[n].red_pct # RowsOfYear[j].red_pct

-----------------------------------------------------------------------------
(* Repeated calls *)

\* C5: a call with the year of the first call returns the frame and the
\* dominant channel the first call returned, whatever calls for other years
\* were made in between.
C5_Idempotent ==
    (pc = "called" /\ year = seen.year) =>
        /\ colored_europe = seen.colored_europe
        /\ dominant_color = seen.dominant_color

\* the year of the first call is called again after a call for another year
\* that returned another frame
C5_Witness ==
    /\ pc = "called"
    /\ year = seen.year
    /\ seen.others
    /\ Len(colored_europe) > 0
    /\ \E y \in CallYears :
          interpolate_colors_to_countries(painting_data, europe_gdf, y).colored_europe
              # colored_europe

-----------------------------------------------------------------------------
(* Claims about animate_color_usage *)

\* the distinct years of the table
YearsPresent == {painting_data[k].year : k \in 1..Len(painting_data)}

\* the 0-based rank of year y among the distinct years of the table
RankOf(y) == Cardinality({z \in YearsPresent : z < y})

\* C4: the loop produces its frames in strictly ascending order of the years,
\* each for a year of the table; when the loop is over there is exactly one
\* frame per distinct year of the table, and every file written is named with
\* the year of a frame and that year's 0-based rank among the distinct years.
C4_FramesInYearOrder ==
    /\ \A k \in 1..Len(frames) : frames[k].year \in YearsPresent
    /\ \A k \in 1..Len(frames) : \A n \in 1..Len(frames) :
          k < n => frames[k].year < frames[n].year
    /\ pc \in {"gif", "done"} /\ painting_data # <<>> =>
          /\ Len(frames) = Cardinality(YearsPresent)
          /\ {frames[k].year : k \in 1..Len(frames)} = YearsPresent
    /\ \A k \in 1..Len(saved) :
          /\ saved[k].year \in YearsPresent
          /\ saved[k].index = RankOf(saved[k].year)
    /\ \A k \in 1..Len(saved) : \A n \in 1..Len(saved) :
          k < n => saved[k].index < saved[n].index /\ saved[k].year < saved[n].year

\* a finished run on a table whose years are out of order and hold a duplicate,
\* with a file written for each of its two years
C4_Witness ==
    /\ pc = "done"
    /\ Len(painting_data) = 3
    /\ painting_data[1].year > painting_data[2].year
    /\ painting_data[3].year = painting_data[1].year
    /\ Len(saved) = 2

\* C10: with an empty table, animate_color_usage goes from its start to its
\* return in one step that prints the message; no frame is produced, no file
\* is written, the directory and the GIF are as they were.
C10_EmptyTable ==
    painting_data = <<>> =>
        /\ pc \in {"start", "done"}
        /\ pc = "start" => ENABLED Start
        /\ frames = <<>>
        /\ saved = <<>>
        /\ animation_frames \in OldDirectories
        /\ gif = NoGif
        /\ pc = "done" => printed = <<"No years found in the data.">>

\* the run on an empty table has returned
C10_Witness ==
    /\ painting_data = <<>>
    /\ pc = "done"
    /\ printed # <<>>

-----------------------------------------------------------------------------
(* Claims about load_painting_data *)

\* C8: after the normalisation every red_pct, green_pct and blue_pct of the
\* table is a number from 0 to 1, one row per row read; a red_pct of 300 has
\* become 1.0.
C8_ChannelsInUnitRange ==
    pc = "loaded" =>
        /\ Len(painting_data) = Len(raw_data.rows)
        /\ \A k \in 1..Len(painting_data) :
              /\ \A col \in ColorColumns :
                    /\ painting_data[k][col] # NaN
                    /\ painting_data[k][col] >= 0
                    /\ painting_data[k][col] <= Scale
              /\ raw_data.rows[k].red_pct = 300 * Scale => painting_data[k].red_pct = Scale

\* a loaded table that had a red_pct of 300, a negative red_pct and a missing
\* blue_pct
C8_Witness ==
    /\ pc = "loaded"
    /\ \E k \in 1..Len(raw_data.rows) : raw_data.rows[k].red_pct = 300 * Scale
    /\ \E k \in 1..Len(raw_data.rows) : raw_data.rows[k].red_pct = -Scale
    /\ \E k \in 1..Len(raw_data.rows) : raw_data.rows[k].blue_pct = NaN

-----------------------------------------------------------------------------
(* Direct calls on tables with numeric anomalies: a painting whose red_pct   *)
(* is NaN and a painting whose longitude is NaN, so that its point and its  *)
(* distance to every centroid are NaN                                       *)

MaxAnomalyRows == 3

AnomalyRows ==
    { Row(2000, 55, 16, Scale, 0, 0),
      Row(2000, 55, 17, NaN, Scale, 0),
      Row(2000, 55, NaN, 0, 0, Scale),
      Row(1900, 55, 15, 33 * 255, 33 * 255, 33 * 255) }

InitAnomaly ==
    /\ painting_data \in SeqsUpTo(AnomalyRows, MaxAnomalyRows)
    /\ europe_gdf \in RegionTables
    /\ InitIdle

SpecAnomaly == InitAnomaly /\ [][NextInterp]_vars

\* a row with a NaN channel, or with a NaN coordinate (a NaN distance and weight)
IsAnomalous(p) ==
    \/ isnan(p.red_pct) \/ isnan(p.green_pct) \/ isnan(p.blue_pct)
    \/ isnan(p.longitude) \/ isnan(p.latitude)

\* C11: when the paintings a region's colour is resolved from (the paintings of
\* the year, at most five here) hold a numeric anomaly, a NaN channel or a NaN
\* distance, the region's colour is the sentinel '#CCCCCC'.
C11_AnomalyGivesSentinel ==
    pc = "called" =>
        \A k \in 1..Len(europe_gdf) :
            (HasGeometry(europe_gdf[k])
                /\ \E j \in 1..Len(RowsOfYear) : IsAnomalous(RowsOfYear[j]))
            => colored_europe[k].color = Sentinel

-----------------------------------------------------------------------------
(* Claims about failures in animate_color_usage *)

Last(s) == s[Len(s)]

\* C12: the frame files written by the run stay in the directory at every later
\* step, whatever fails; after a failure of the GIF step the function is done
\* with all of them in place; and every year of the table gets its pass of the
\* loop, whether or not an earlier pass failed.
C12_BestEffort ==
    /\ [][animation_frames \subseteq animation_frames']_vars
    /\ [](/\ \A k \in 1..Len(saved) : saved[k] \in animation_frames
          /\ (pc \in {"gif", "done"} /\ years # <<>>) =>
                /\ Len(frames) = Len(years)
                /\ \A k \in 1..Len(years) : frames[k].year = years[k]
                /\ Len(saved) +
                   Cardinality({k \in 1..Len(printed) : printed[k] = "Error processing frame"})
                       = Len(years))

\* the GIF step failed after a run in which the frame of one year failed and
\* the frame of a later year was saved
C12_Witness ==
    /\ pc = "done"
    /\ printed # <<>>
    /\ Last(printed) = "Could not create GIF"
    /\ ~gif.written
    /\ saved # <<>>
    /\ \E a, b \in 1..Len(printed) :
          /\ a < b
          /\ printed[a] = "Error processing frame"
          /\ printed[b] = "Saved frame"

-----------------------------------------------------------------------------
(* load_europe_map: a source is a file that exists or not; reading a file   *)
(* that exists and filtering its rows by NAME either gives the rows or      *)
(* raises (an unreadable file, a table without the column NAME)             *)

potential_paths ==
    << "ne_50m_admin_0_countries.shp",
       "./ne_50m_admin_0_countries/ne_50m_admin_0_countries.shp",
       "../ne_50m_admin_0_countries.shp" >>

european_countries ==
    { "Albania", "Andorra", "Austria", "Belarus", "Belgium",
      "Bosnia and Herzegovina", "Bulgaria", "Croatia", "Czech Republic",
      "Denmark", "Estonia", "Finland", "France", "Germany", "Greece",
      "Hungary", "Iceland", "Ireland", "Italy", "Latvia", "Lithuania",
      "Luxembourg", "Malta", "Moldova", "Monaco", "Montenegro",
      "Netherlands", "North Macedonia", "Norway", "Poland", "Portugal",
      "Romania", "Russia", "San Marino", "Serbia", "Slovakia", "Slovenia",
      "Spain", "Sweden", "Switzerland", "Ukraine", "United Kingdom",
      "Vatican City" }

Unreadable == [exists |-> TRUE, reads |-> FALSE, rows |-> <<>>]

Readable(rows) == [exists |-> TRUE, reads |-> TRUE, rows |-> rows]

\* europe[europe['NAME'].isin(european_countries)]
filter_european(rows) == SelectSeq(rows, LAMBDA c : c.NAME \in european_countries)

\* lines 78-88: one region named Europe, the rectangle -10..40 by 35..75
create_simple_europe_map == <<Region("Europe", Box(-10, 35, 40, 75))>>

\* a cascade in which a file that cannot be read is skipped and the next
\* source is tried
load_europe_map_cascade(files, url) ==
    LET good == {k \in 1..Len(files) : files[k].exists /\ files[k].reads}
    IN  IF good # {}
        THEN filter_european(files[CHOOSE k \in good : \A j \in good : k <= j].rows)
        ELSE IF url.reads THEN filter_european(url.rows)
        ELSE create_simple_europe_map

\* lines 18-76: the first path that exists is read and filtered, an exception
\* of that goes to the handler of line 74; without a file at any path the
\* download is read and filtered, an exception of that goes to the handler of
\* line 66; both handlers return the simplified map
load_europe_map(files, url) ==
    LET found == {k \in 1..Len(files) : files[k].exists}
    IN  IF found # {}
        THEN LET path == CHOOSE k \in found : \A j \in found : k <= j
             IN  IF files[path].reads THEN filter_european(files[path].rows)
                 ELSE create_simple_europe_map
        ELSE IF url.reads THEN filter_european(url.rows)
        ELSE create_simple_europe_map

\* the tables a shapefile may hold: a European and a non-European country, one
\* European country, no European country
ShapefileTables ==
    { <<Region("France", Box(14, 54, 18, 56)), Region("Brazil", Box(-70, -30, -40, 0))>>,
      <<Region("Norway", Box(5, 58, 30, 70))>>,
      <<Region("Brazil", Box(-70, -30, -40, 0))>> }

Sources == {Missing, Unreadable} \cup {Readable(t) : t \in ShapefileTables}

InitMap ==
    /\ shapefiles \in [1..Len(potential_paths) -> Sources]
    /\ url_file \in Sources \ {Missing}
    /\ raw_data = NoTable
    /\ dl = NoDownload
    /\ painting_data = <<>>
    /\ europe_gdf = <<>>
    /\ pc = "map"
    /\ year = 0
    /\ colored_europe = <<>>
    /\ dominant_color = "None"
    /\ seen = NotCalled
    /\ years = <<>>
    /\ i = 0
    /\ frames = <<>>
    /\ animation_frames = {}
    /\ saved = <<>>
    /\ gif = NoGif
    /\ printed = <<>>

\* europe_gdf = load_europe_map()
LoadMap ==
    /\ pc = "map"
    /\ europe_gdf' = load_europe_map(shapefiles, url_file)
    /\ pc' = "mapped"
    /\ UNCHANGED <<dl, shapefiles, url_file, raw_data, painting_data, callVars, seen, animVars>>

NextMap == LoadMap

SpecMap == InitMap /\ [][NextMap]_vars

\* what a source gives when it is read without an exception
EuropeanRowsOf(source) == SelectSeq(source.rows, LAMBDA c : c.NAME \in european_countries)

IsSynthetic(gdf) ==
    /\ Len(gdf) = 1
    /\ gdf[1].NAME = "Europe"
    /\ gdf[1].geometry = [kind |-> "Polygon", minx |-> -10, miny |-> 35, maxx |-> 40, maxy |-> 75]

-----------------------------------------------------------------------------
(* Sequences of calls on region tables that may come with a colour field:   *)
(* a region of the table carries no colour, or the colour '#ff0000'         *)

MaxFrameRows == 2

FrameRows ==
    { Row(2000, 55, 16, Scale, 0, 0),
      Row(2000, 55, 17, 0, Scale, 0),
      Row(1900, 55, 15, 33 * 255, 33 * 255, 33 * 255) }

OldColors == {NoColor, <<"#", "f", "f", "0", "0", "0", "0">>}

ColouredTables ==
    UNION { { [k \in 1..Len(t) |-> [t[k] EXCEPT !.color = c[k]]] :
                  c \in [1..Len(t) -> OldColors] } : t \in RegionTables }

InitFrames ==
    /\ painting_data \in SeqsUpTo(FrameRows, MaxFrameRows)
    /\ europe_gdf \in ColouredTables
    /\ InitIdle

SpecFrames == InitFrames /\ [][NextCalls]_vars

\* the region table without any colour field
Uncoloured(gdf) == [k \in 1..Len(gdf) |-> [gdf[k] EXCEPT !.color = NoColor]]

\* C14: no call changes the sample table or the region table it is given
\* (names, geometry, colour field); after any sequence of calls the frame holds
\* for every region its name and geometry and the colour of the year of the
\* last call alone, the one resolved from a region table without colours and
\* without earlier calls.
C14_InputsUntouched ==
    /\ [][painting_data' = painting_data /\ europe_gdf' = europe_gdf]_vars
    /\ [](pc = "called" =>
            /\ Len(colored_europe) = Len(europe_gdf)
            /\ \A k \in 1..Len(europe_gdf) :
                  /\ colored_europe[k].NAME = europe_gdf[k].NAME
                  /\ colored_europe[k].geometry = europe_gdf[k].geometry
                  /\ colored_europe[k].color =
                        interpolate_colors_to_countries(
                            painting_data, Uncoloured(europe_gdf), year).colored_europe[k].color)

\* a call for 1900 after a call for 2000, on a table whose region came with a
\* colour and was given another colour in each of the two years
C14_Witness ==
    /\ pc = "called"
    /\ seen.year = 2000
    /\ seen.others
    /\ year = 1900
    /\ \E k \in 1..Len(europe_gdf) :
          /\ europe_gdf[k].color # NoColor
          /\ seen.colored_europe[k].color \notin {Sentinel, europe_gdf[k].color}
          /\ colored_europe[k].color \notin {Sentinel, europe_gdf[k].color,
                                              seen.colored_europe[k].color}

-----------------------------------------------------------------------------
(* Claims about the rescaling in load_painting_data *)

\* the value of a cell after the missing values were filled with 0.33
FilledCell(k, col) ==
    IF col \notin raw_data.columns \/ raw_data.rows[k][col] = NaN THEN 33 * 255
    ELSE raw_data.rows[k][col]

\* some value of the filled column is above 1.0
ColumnAboveOne(col) == \E k \in 1..Len(raw_data.rows) : FilledCell(k, col) > Scale

Clamped(v) == IF v < 0 THEN 0 ELSE IF v > Scale THEN Scale ELSE v

\* C15: a colour column holding a value above 1.0 after the filling has every
\* one of its values divided by 255, values within [0,1] and filled defaults
\* included; a column without such a value has none divided; each of the
\* three columns by its own values only.  (Every value is clamped afterwards.)
C15_RescalePerColumn ==
    pc = "loaded" =>
        \A col \in ColorColumns : \A k \in 1..Len(painting_data) :
            painting_data[k][col] =
                IF ColumnAboveOne(col) THEN Clamped(FilledCell(k, col) \div 255)
                ELSE Clamped(FilledCell(k, col))

\* a table with a red_pct of 300 in one row and a missing red_pct in another,
\* and 0.5 as green_pct in both: the filled red_pct became 0.33 / 255, the
\* green_pct stayed 0.5
C15_Witness ==
    /\ pc = "loaded"
    /\ "blue_pct" \in raw_data.columns
    /\ \E a, b \in 1..Len(painting_data) :
          /\ raw_data.rows[a].red_pct = 300 * Scale
          /\ raw_data.rows[b].red_pct = NaN
          /\ painting_data[b].red_pct = 33
          /\ raw_data.rows[a].green_pct = Scale \div 2
          /\ raw_data.rows[b].green_pct = Scale \div 2
          /\ painting_data[b].green_pct = Scale \div 2

-----------------------------------------------------------------------------
(* Claims about the GIF *)

\* C16: the GIF that was written holds exactly the frame files saved by this
\* run, in the order of their saving, which is the ascending order of the
\* years; a frame file the directory held before the run is not in it.
C16_GifOfThisRun ==
    gif.written =>
        /\ gif.frames = saved
        /\ \A k \in 1..(Len(gif.frames) - 1) : gif.frames[k].year < gif.frames[k + 1].year

-----------------------------------------------------------------------------
(* download_image (claude3.py): dl holds whether the url is one of          *)
(* wikimedia.org or wikipedia.org, max_retries, retries, the number of      *)
(* requests for the url and for the thumbnail, the outcome of every pass    *)
(* of the loop, the waits of time.sleep and what was returned               *)

MaxRetries == 3

RECURSIVE Pow2(_)
Pow2(n) == IF n = 0 THEN 1 ELSE 2 * Pow2(n - 1)

InitDownload ==
    /\ dl \in [pc : {"loop"}, wiki : BOOLEAN, max_retries : 0..MaxRetries,
               retries : {0}, requests : {0}, thumbnails : {0},
               outcomes : {<<>>}, waits : {<<>>}, result : {"unset"}]
    /\ shapefiles = <<>>
    /\ url_file = Missing
    /\ raw_data = NoTable
    /\ painting_data = <<>>
    /\ europe_gdf = <<>>
    /\ pc = "download"
    /\ year = 0
    /\ colored_europe = <<>>
    /\ dominant_color = "None"
    /\ seen = NotCalled
    /\ years = <<>>
    /\ i = 0
    /\ frames = <<>>
    /\ animation_frames = {}
    /\ saved = <<>>
    /\ gif = NoGif
    /\ printed = <<>>

otherVars == <<shapefiles, url_file, raw_data, painting_data, europe_gdf, pc, callVars,
               seen, animVars>>

\* the sleep of lines 116-119 and 124-127 taken after the last attempt too
backoff_always(retries, max_retries, waits) == Append(waits, Pow2(retries))

\* lines 116-119 and 124-127: time.sleep(2 ** retries) when retries < max_retries
backoff(retries, max_retries, waits) ==
    IF retries < max_retries THEN Append(waits, Pow2(retries)) ELSE waits

\* a pass of the loop that ends without a return: retries += 1 and the sleep
Failed(outcome, thumbnail_requests) ==
    dl' = [dl EXCEPT !.requests = @ + 1,
                     !.thumbnails = @ + thumbnail_requests,
                     !.retries = @ + 1,
                     !.outcomes = Append(@, outcome),
                     !.waits = backoff(dl.retries + 1, dl.max_retries, @)]

\* a pass of the loop that returns the image
Returned(outcome, thumbnail_requests) ==
    dl' = [dl EXCEPT !.requests = @ + 1,
                     !.thumbnails = @ + thumbnail_requests,
                     !.outcomes = Append(@, outcome),
                     !.result = "image",
                     !.pc = "returned"]

InLoop == dl.pc = "loop" /\ dl.retries < dl.max_retries

\* lines 91-94: status 200 and an image
PrimaryOk == InLoop /\ Returned("image", 0) /\ UNCHANGED otherVars

\* lines 91-94 and 121-127: requests.get or Image.open raises
PrimaryException == InLoop /\ Failed("exception", 0) /\ UNCHANGED otherVars

\* lines 93-99 and 115-119: another status, and no thumbnail for the url
Status == InLoop /\ ~dl.wiki /\ Failed("status", 0) /\ UNCHANGED otherVars

\* lines 99-109: another status, and the thumbnail comes with 200 and an image
ThumbnailOk == InLoop /\ dl.wiki /\ Returned("thumbnail image", 1) /\ UNCHANGED otherVars

\* lines 107-111 and 115-119: the thumbnail comes with another status
ThumbnailStatus == InLoop /\ dl.wiki /\ Failed("thumbnail status", 1) /\ UNCHANGED otherVars

\* lines 107-109, 112-113 and 115-119: the thumbnail request or Image.open raises
ThumbnailException ==
    InLoop /\ dl.wiki /\ Failed("thumbnail exception", 1) /\ UNCHANGED otherVars

\* lines 88 and 129-130: the loop is over, None is returned
GiveUp ==
    /\ dl.pc = "loop"
    /\ ~(dl.retries < dl.max_retries)
    /\ dl' = [dl EXCEPT !.result = "None", !.pc = "returned"]
    /\ UNCHANGED otherVars

NextDownload ==
    \/ PrimaryOk \/ PrimaryException \/ Status
    \/ ThumbnailOk \/ ThumbnailStatus \/ ThumbnailException
    \/ GiveUp

\* every request returns or raises within its timeout and every sleep ends, so
\* the function takes its next step
SpecDownload == InitDownload /\ [][NextDownload]_vars /\ WF_vars(NextDownload)

-----------------------------------------------------------------------------
(* Claims about download_image *)

IsSuccess(outcome) == outcome \in {"image", "thumbnail image"}

FailedAttempts == Cardinality({k \in 1..Len(dl.outcomes) : ~IsSuccess(dl.outcomes[k])})

\* C17: download_image returns, whatever the requests give.  It makes at most
\* max_retries requests for the url; it returns the image with the first
\* response that is a success, so no pass of the loop follows a success; it
\* returns None exactly after max_retries failed attempts; and the sleeps are
\* those of 2^n seconds after the n-th failed attempt for each n below
\* max_retries, none after the last attempt.
C17_Terminates ==
    /\ <>(dl.pc = "returned")
    /\ [](/\ dl.requests <= dl.max_retries
          /\ dl.requests = Len(dl.outcomes)
          /\ \A k \in 1..Len(dl.outcomes) :
                IsSuccess(dl.outcomes[k]) => k = Len(dl.outcomes) /\ dl.result = "image"
          /\ dl.result = "image" =>
                dl.outcomes # <<>> /\ IsSuccess(dl.outcomes[Len(dl.outcomes)])
          /\ dl.result = "None" => FailedAttempts = dl.max_retries
          /\ dl.pc = "returned" => dl.result \in {"image", "None"}
          /\ Len(dl.waits) =
                (IF FailedAttempts < dl.max_retries THEN FailedAttempts
                 ELSE Max2(dl.max_retries - 1, 0))
          /\ \A n \in 1..Len(dl.waits) : dl.waits[n] = Pow2(n))

\* None was returned after three failed attempts, one of them with a failing
\* thumbnail, and two sleeps of 2 and 4 seconds
C17_Witness ==
    /\ dl.pc = "returned"
    /\ dl.result = "None"
    /\ dl.max_retries = 3
    /\ dl.requests = 3
    /\ dl.thumbnails >= 1
    /\ \E k \in 1..Len(dl.outcomes) : dl.outcomes[k] = "exception"
    /\ dl.waits = <<2, 4>>

====
